---- MODULE Spec2Model ----
(***************************************************************************)
(* Cirkelgen: a six-category, four-tier radial chart.                      *)
(*                                                                         *)
(* Two renderers are modelled:                                             *)
(*   - the Konva renderer (src/chart-script.js): five content layers, an   *)
(*     animation scheduler (animateChart / animateGrid / animateData) and  *)
(*     static redraws (updateChart(false));                                *)
(*   - the canvas renderer (src/unnamed/part_000): one asynchronous        *)
(*     drawChart on a 2D canvas, and the PNG export built on it.           *)
(*                                                                         *)
(* Metric values are kept in hundredths (230 is 2.3), so Math.floor(v*10)  *)
(* is v \div 10.  For every multiple of 0.01 in [0, 4] the double product  *)
(* v*10 floors to that same integer, so the integer model is exact there.  *)
(* Times are in milliseconds.                                              *)
(***************************************************************************)
EXTENDS Integers, Sequences, FiniteSets, TLC

VARIABLES
    \* ---- geometry kernel run (one category's tier loop) ----
    kValue,            \* the clamped metric value of the category being drawn
    kTier,             \* the tier loop index (0..numTiers)
    kFilled,           \* layersFilled of the tiers drawn so far, inner first
    kConfig,           \* the geometry configuration the loop reads
    kRings,            \* the ring bounds of the tiers drawn so far, inner first
    \* ---- geometry kernel run (the category loop of the average indicators) ----
    gRenderer,         \* which renderer draws, at which canvas width
    gAverage,          \* the clamped average value of the categories
    gCategory,         \* the category loop index (0..numCategories)
    gSlices,           \* the wedge angles of the categories visited so far
    gIndicator,        \* the geometry of the indicator computed last, if any
    \* ---- calculateSliceProgress called frame after frame ----
    pElapsed,          \* the elapsed argument of the last call
    pDuration,         \* the duration argument of the calls
    pProgress,         \* the vector the last call returned
    pTier,             \* calculateTierProgress of that vector
    \* ---- drawChart called directly with arrays of any length ----
    dArgs,             \* the scores, benchmarks and averages arrays passed
    dResult            \* whether the call has run and whether its promise rejected

tierVars == <<kValue, kTier, kFilled, kConfig, kRings>>
indicatorVars == <<gRenderer, gAverage, gCategory, gSlices, gIndicator>>
progressVars == <<pElapsed, pDuration, pProgress, pTier>>
callVars == <<dArgs, dResult>>
kernelVars == <<tierVars, indicatorVars, progressVars, callVars>>

VARIABLES
    \* ---- the form: raw text of the 6 inputs of each section ----
    scoreInputs, benchmarkInputs, averageInputs,
    \* ---- visibility flags ----
    showBenchmark, showAverage, showValues, showLabels,
    \* ---- Konva renderer: animation scheduler ----
    isAnimating,       \* animateChart's re-entrancy flag
    animation,         \* the ticker created by the running animateChart
    gridAnimationRef,  \* the ticker of animateGrid, or null
    dataAnimationRef,  \* the ticker of animateData, or null
    \* ---- Konva renderer: children of each layer, bottom first ----
    backgroundLayer, benchmarkLayer, scoreLayer, averageLayer, labelLayer,
    \* ---- the handler that ran last, and the user events still followed ----
    lastEvent, eventsLeft

inputVars == <<scoreInputs, benchmarkInputs, averageInputs>>
flagVars == <<showBenchmark, showAverage, showValues, showLabels>>
tickerVars == <<isAnimating, animation, gridAnimationRef, dataAnimationRef>>
layerVars == <<backgroundLayer, benchmarkLayer, scoreLayer, averageLayer, labelLayer>>
pageVars == <<inputVars, flagVars, lastEvent, eventsLeft>>
konvaVars == <<tickerVars, layerVars>>

VARIABLES
    \* ---- canvas renderer ----
    canvas,            \* what has been painted on #radialChart since its last clearRect
    pending,           \* the drawChart calls suspended in await loadSVG, oldest first
    downloads,         \* the export variants downloaded so far
    exportLog,         \* the flags at the click of the export that finished last
    svgOutcome,        \* what PASS 5 did in the handler that ran last, if it ran
    userFlags          \* showBenchmark, showAverage as the toggle clicks set them

canvasVars == <<canvas, pending, downloads, exportLog, svgOutcome, userFlags>>

vars == <<kernelVars, pageVars, konvaVars, canvasVars>>

-----------------------------------------------------------------------------
(* CONFIG *)

totalLayers == 67
centerHole == 18
ringThickness == 10
gapThickness == 3
sliceGapThickness == 3
numCategories == 6
numTiers == 4

Categories == 0 .. (numCategories - 1)
Tiers == 0 .. (numTiers - 1)

\* Largest metric value the kernel is run on, in hundredths (4.00).
MaxValue == 400

Min(a, b) == IF a < b THEN a ELSE b
Max(a, b) == IF a > b THEN a ELSE b

-----------------------------------------------------------------------------
(* Geometry kernel *)

\* Math.floor(value * 10), value in hundredths.
FloorTimes10(value) == value \div 10

\* A fill formula that forgets the lower clamp's tier offset (every tier is
\* filled from the total, not from what the lower tiers left over).
LayersFilledNoOffset(value, tier) ==
    Max(0, Min(10, FloorTimes10(value)))

\* A fill formula without the upper clamp Math.min(10, ...).
LayersFilledNoUpperClamp(value, tier) ==
    Max(0, FloorTimes10(value) - tier * 10)

\* Math.max(0, Math.min(10, Math.floor(score * 10) - tier * 10))
LayersFilled(value, tier) ==
    Max(0, Min(10, FloorTimes10(value) - tier * 10))

\* The geometry constants of both source files.
ShippedConfig ==
    [totalLayers |-> totalLayers, centerHole |-> centerHole,
     ringThickness |-> ringThickness, gapThickness |-> gapThickness]

\* Ring bounds whose tiers are stacked without the gap between them.
getRingBoundsNoGap(config, tierIndex) ==
    LET startRadius == config.centerHole + tierIndex * config.ringThickness
    IN  [startRadius |-> startRadius, endRadius |-> startRadius + config.ringThickness]

\* getRingBounds(tierIndex, layerThickness), in layer units (multiples of
\* layerThickness = maxRadius / totalLayers).
getRingBounds(config, tierIndex) ==
    LET startRadius == config.centerHole
                       + tierIndex * (config.ringThickness + config.gapThickness)
    IN  [startRadius |-> startRadius, endRadius |-> startRadius + config.ringThickness]

RingStart(tier) == getRingBounds(ShippedConfig, tier).startRadius
RingEnd(tier) == getRingBounds(ShippedConfig, tier).endRadius

-----------------------------------------------------------------------------
(* Geometry kernel: wedge angles and the average indicator.  Angles are in *)
(* degrees.  Radii are in tenths of layerThickness.  The protrusion angle  *)
(* asin(x) is kept as its sine x, a fraction <<num, den>> with den > 0:    *)
(* asin is increasing on [-1, 1], so angles that differ from the same mid  *)
(* angle by less than 90 degrees are ordered as the sines of their         *)
(* offsets, and sin(30 degrees) = 1/2 is exact.                            *)

\* sliceAngle = 2 pi / numCategories, rotationAngle = -pi / 2
sliceAngle == 360 \div numCategories
rotationAngle == -90

\* Wedges that leave the slice gap out of their angles.
SliceAnglesWithGap(category) ==
    [startAngle |-> category * sliceAngle + rotationAngle + sliceGapThickness,
     endAngle |-> (category + 1) * sliceAngle + rotationAngle - sliceGapThickness]

\* startAngle = category * sliceAngle + rotationAngle;
\* endAngle = (category + 1) * sliceAngle + rotationAngle
SliceAngles(category) ==
    [startAngle |-> category * sliceAngle + rotationAngle,
     endAngle |-> (category + 1) * sliceAngle + rotationAngle]

\* Canvas renderer, PASS 3: the angle handed to drawGap, and the direction of
\* the rectangle fillRect(-width/2, 0, width, length) after ctx.rotate(angle):
\* it runs along the rotated y axis, a quarter turn ahead of the angle.
CanvasGapAngle(i) == i * sliceAngle + rotationAngle - 90
CanvasGapDirection(i) == CanvasGapAngle(i) + 90

\* Konva renderer, drawGapLines: the line from the centre along (cos, sin).
KonvaGapDirection(i) == i * sliceAngle + rotationAngle

\* The three renderings of the program: the Konva stage (displaySize 500,
\* protrusion 10), the on-screen canvas (displaySize * scale = 3000) and the
\* export canvas (canvasSize * exportScale = 6000), both with protrusion
\* 10 * scale = 60.
KonvaRenderer == [name |-> "konva", canvasWidth |-> 500, protrusion |-> 10,
                  strokeWidth |-> 2]
ScreenRenderer == [name |-> "canvas", canvasWidth |-> 6 * 500, protrusion |-> 10 * 6,
                   strokeWidth |-> 7 * 6]
ExportRenderer == [name |-> "canvas", canvasWidth |-> 6 * 500 * 2, protrusion |-> 10 * 6,
                   strokeWidth |-> 7 * 6]
Renderers == {KonvaRenderer, ScreenRenderer, ExportRenderer}

\* Fractions <<num, den>>, den > 0.
RECURSIVE GCD(_, _)
GCD(a, b) == IF b = 0 THEN a ELSE GCD(b, a % b)

FracLeq(a, b) == a[1] * b[2] <= b[1] * a[2]
FracNeg(a) == <<0 - a[1], a[2]>>
HalfSlice == <<1, 2>>

\* An angle of the indicator: midAngle + asin(sine), or NaN.
NaNAngle == [nan |-> TRUE, mid |-> 0, sine |-> <<0, 1>>]
AngleAt(mid, sine) == [nan |-> FALSE, mid |-> mid, sine |-> sine]
\* Math.max / Math.min of two angles about the same midAngle.
MaxAngle(a, b) == IF a.nan \/ b.nan THEN NaNAngle
                  ELSE IF FracLeq(a.sine, b.sine) THEN b ELSE a
MinAngle(a, b) == IF a.nan \/ b.nan THEN NaNAngle
                  ELSE IF FracLeq(a.sine, b.sine) THEN a ELSE b

\* An average layer index that forgets the - 1.
AverageLayerIndexNoOffset(average) == FloorTimes10(average)

\* Math.floor(average * 10) - 1
AverageLayerIndex(average) == FloorTimes10(average) - 1

\* A layer position that forgets the centre hole and the tiers below.
ActualLayerInTier(averageLayerIdx) == averageLayerIdx % 10

\* centerHole + tierIndex * (ringThickness + gapThickness) + layerWithinTier
ActualLayer(averageLayerIdx) ==
    LET tierIndex == averageLayerIdx \div 10
        layerWithinTier == averageLayerIdx % 10
    IN  centerHole + tierIndex * (ringThickness + gapThickness) + layerWithinTier

\* protrusion / midRadius, where layerThickness = 0.8 * (canvasWidth / 2) /
\* totalLayers and midRadius = (layerIndex + 1/2) * layerThickness.
\* The quotient is kept in lowest terms.
ProtrusionRatio(renderer, layerIndex) ==
    LET num == renderer.protrusion * 10 * totalLayers
        den == (2 * layerIndex + 1) * 2 * renderer.canvasWidth
    IN  <<num \div GCD(num, den), den \div GCD(num, den)>>

\* Math.asin(x) is NaN outside [-1, 1].
AsinDefined(x) == x[1] <= x[2] /\ 0 - x[1] <= x[2]

\* A main body that spans the whole slice.
ClampedStartWholeSlice(sliceStart, newStartAngle) == sliceStart

\* Math.max(startAngle, newStartAngle), Math.min(endAngle, newEndAngle)
ClampedStart(sliceStart, newStartAngle) == MaxAngle(sliceStart, newStartAngle)
ClampedEnd(sliceEnd, newEndAngle) == MinAngle(sliceEnd, newEndAngle)

NoIndicator == [drawn |-> FALSE]

\* drawAverageLayer(centerX, centerY, layerIndex, startAngle, endAngle,
\* layerThickness) of the canvas renderer, and the pill drawAverages builds
\* at progress 1 in the Konva renderer.
drawAverageLayer(renderer, layerIndex, slice) ==
    LET baseStartRadius == 10 * layerIndex
        baseEndRadius == baseStartRadius + 10
        midRadius == (baseStartRadius + baseEndRadius) \div 2
        ratio == ProtrusionRatio(renderer, layerIndex)
        midAngle == (slice.startAngle + slice.endAngle) \div 2
        sliceStart == AngleAt(midAngle, FracNeg(HalfSlice))
        sliceEnd == AngleAt(midAngle, HalfSlice)
        newStartAngle == IF AsinDefined(ratio) THEN AngleAt(midAngle, FracNeg(ratio))
                         ELSE NaNAngle
        newEndAngle == IF AsinDefined(ratio) THEN AngleAt(midAngle, ratio)
                       ELSE NaNAngle
        \* canvas: thicknessIncrease = layerThickness * 1.2, half of it on
        \* each side of the base layer; Konva: circleRadius = layerThickness * 0.6
        \* on each side of midRadius
        startRadius == IF renderer.name = "canvas" THEN baseStartRadius - 12 \div 2
                       ELSE midRadius - 6
        endRadius == IF renderer.name = "canvas" THEN baseEndRadius + 12 \div 2
                     ELSE midRadius + 6
    IN  [drawn |-> TRUE,
         renderer |-> renderer,
         layerIndex |-> layerIndex,
         slice |-> slice,
         midRadius |-> midRadius,
         ratio |-> ratio,
         startCircle |-> [angle |-> newStartAngle, radius |-> (endRadius - startRadius) \div 2],
         endCircle |-> [angle |-> newEndAngle, radius |-> (endRadius - startRadius) \div 2],
         mainShape |-> [startRadius |-> startRadius, endRadius |-> endRadius,
                        startAngle |-> IF renderer.name = "canvas"
                                       THEN ClampedStart(sliceStart, newStartAngle)
                                       ELSE newStartAngle,
                        endAngle |-> IF renderer.name = "canvas"
                                     THEN ClampedEnd(sliceEnd, newEndAngle)
                                     ELSE newEndAngle],
         protrusions |-> [startRadius |-> startRadius, endRadius |-> endRadius,
                          startAngle |-> newStartAngle, endAngle |-> newEndAngle],
         strokeWidth |-> renderer.strokeWidth]

\* The average indicator of one category as drawChart (PASS 1) and
\* drawAverages compute it: none when the layer index is negative.
IndicatorOf(renderer, category, average) ==
    LET averageLayerIdx == AverageLayerIndex(average)
    IN  IF averageLayerIdx < 0 THEN NoIndicator
        ELSE drawAverageLayer(renderer, ActualLayer(averageLayerIdx),
                              SliceAngles(category))
             @@ [averageLayerIdx |-> averageLayerIdx,
                 tierIndex |-> averageLayerIdx \div 10,
                 layerWithinTier |-> averageLayerIdx % 10,
                 category |-> category]

-----------------------------------------------------------------------------
(* Form inputs (both renderers) *)

\* A raw input is <<>> when parseFloat gives NaN (empty or non-numeric text),
\* and <<n>> when it parses to n hundredths.
NaNInput == <<>>

\* A getValues that keeps the parsed number as it is.
GetValueNoClamp(raw) == IF raw = NaNInput THEN 0 ELSE raw[1]

\* isNaN(value) ? 0 : Math.max(0, Math.min(4, value))
GetValue(raw) ==
    IF raw = NaNInput THEN 0 ELSE Max(0, Min(400, raw[1]))

GetValues(inputs) == [c \in Categories |-> GetValue(inputs[c])]

\* createInputs: input.value = '0' in every field.
InitialInputs == [c \in Categories |-> <<0>>]

-----------------------------------------------------------------------------
(* Konva renderer: animation timing (CONFIG) *)

animationDuration == 1200
gridAnimationDuration == 1800
sliceStaggerDelay == 150
\* sliceOverlap is 0.6; kept in tenths.
sliceOverlapTenths == 6

\* Progress values are kept in units of 1/ProgressUnit; both effective slice
\* durations (840 ms and 1260 ms) divide it, so a progress reached after a
\* whole number of milliseconds is exact.
ProgressUnit == 2 * 1260

\* An effective duration that forgets the overlap.
EffectiveSliceDurationNoOverlap(duration) == duration

\* duration * (1 - overlap * 0.5)
EffectiveSliceDuration(duration) == (duration * (20 - sliceOverlapTenths)) \div 20

\* calculateSliceProgress: the progress of slice i.
SliceProgressOf(i, elapsed, duration, staggerDelay) ==
    LET sliceStart == i * staggerDelay
        sliceElapsed == Max(0, elapsed - sliceStart)
    IN  Min(ProgressUnit,
            (sliceElapsed * ProgressUnit) \div EffectiveSliceDuration(duration))

calculateSliceProgress(elapsed, duration, staggerDelay) ==
    [i \in Categories |-> SliceProgressOf(i, elapsed, duration, staggerDelay)]

\* A tier progress that forgets the tier's delay.
TierProgressOfNoDelay(sliceProg, t) == <<20 * sliceProg, 20 * ProgressUnit>>

\* calculateTierProgress: tier t of a slice with progress sliceProg.  The
\* result is the fraction <<num, den>> of
\*   max(0, min(1, (sliceProg - 0.15 t) / (1 - 0.15 t))).
TierProgressOf(sliceProg, t) ==
    LET num == 20 * sliceProg - 3 * t * ProgressUnit
        den == (20 - 3 * t) * ProgressUnit
    IN  <<Max(0, Min(den, num)), den>>

calculateTierProgress(sliceProgress) ==
    [i \in Categories |-> [t \in Tiers |-> TierProgressOf(sliceProgress[i], t)]]

\* The progress arguments a draw function gets by default (progress = 1):
\* with them every eased factor and every opacity is exactly 1.
FullProgress == [i \in Categories |-> ProgressUnit]
FullTierProgress == calculateTierProgress(FullProgress)

\* A completion test that wants the progress to exceed 1.
AllCompleteStrict(sliceProgress) == \A i \in Categories : sliceProgress[i] > ProgressUnit

\* sliceProgress.every(p => p >= 1)
AllComplete(sliceProgress) == \A i \in Categories : sliceProgress[i] >= ProgressUnit

\* Math.max(...sliceProgress)
MaxProgress(sliceProgress) ==
    CHOOSE m \in {sliceProgress[i] : i \in Categories} :
        \A i \in Categories : sliceProgress[i] <= m

-----------------------------------------------------------------------------
(* Konva renderer: drawing functions.  A layer is the sequence of its       *)
(* children, bottom first.  A shape records the arguments its geometry is  *)
(* computed from: the easings are fixed functions of the progress, so the  *)
(* progress a shape was drawn with stands for its animated radius/angle.   *)

NoShape == [kind |-> "none"]
Drawn(shapes) == SelectSeq(shapes, LAMBDA s : s.kind # "none")

\* The (category, tier) pairs in the order of the nested loops.
LoopCategory(k) == (k - 1) \div numTiers
LoopTier(k) == (k - 1) % numTiers
LoopLength == numCategories * numTiers

\* drawGapLines(layer, opacity): one line per category boundary.
drawGapLines(opacity) ==
    [i \in 1 .. numCategories |-> [kind |-> "gap", boundary |-> i - 1, opacity |-> opacity]]

\* drawBackground(sliceProgress, tierProgress)
drawBackground(sliceProgress, tierProgress) ==
    LET segment(k) ==
            LET category == LoopCategory(k)
                tier == LoopTier(k)
                sliceProg == sliceProgress[category]
                tierProg == tierProgress[category][tier]
            IN  IF sliceProg <= 0 THEN NoShape
                ELSE IF tierProg[1] <= 0 THEN NoShape
                ELSE [kind |-> "background", category |-> category, tier |-> tier,
                      sweep |-> sliceProg, build |-> tierProg]
        maxProgress == MaxProgress(sliceProgress)
        \* maxProgress > 0.3, opacity min(1, (maxProgress - 0.3) / 0.7)
        gaps == IF 10 * maxProgress > 3 * ProgressUnit
                THEN drawGapLines(<<Min(7 * ProgressUnit, 10 * maxProgress - 3 * ProgressUnit),
                                    7 * ProgressUnit>>)
                ELSE <<>>
    IN  Drawn([k \in 1 .. LoopLength |-> segment(k)]) \o gaps

\* The smallest progress (in 1/ProgressUnit) at which the concentric
\* expansion maxPossibleRadius * easeOutExpo(p) has passed the start radius of
\* each tier: ProgressUnit * log2(67 / (67 - RingStart(t))) / 10, rounded up
\* (113.7, 225.8, 388.7, 691.5).
ExpoReach == <<114, 226, 389, 692>>

\* startRadius <= currentMaxRadius and animatedEndRadius > startRadius
TierReached(tier, sliceProg) == sliceProg >= ExpoReach[tier + 1]

\* The wedges drawScores / drawBenchmarks add for one metric.
FillSegments(kind, values, animationProgress) ==
    LET segment(k) ==
            LET category == LoopCategory(k)
                tier == LoopTier(k)
                sliceProg == animationProgress[category]
                layersFilled == LayersFilled(values[category], tier)
            IN  IF sliceProg <= 0 THEN NoShape
                ELSE IF ~TierReached(tier, sliceProg) THEN NoShape
                ELSE IF layersFilled <= 0 THEN NoShape
                ELSE [kind |-> kind, category |-> category, tier |-> tier,
                      value |-> values[category], layersFilled |-> layersFilled,
                      progress |-> sliceProg]
    IN  Drawn([k \in 1 .. LoopLength |-> segment(k)])

\* drawScores whose wedges never grow past half of the animation.
drawScoresPartial(scores, animationProgress) ==
    FillSegments("score", scores,
                 [i \in Categories |-> Min(animationProgress[i], ProgressUnit \div 2)])
        \o drawGapLines(<<MaxProgress(animationProgress), ProgressUnit>>)

\* drawScores(scores, animationProgress)
drawScores(scores, animationProgress) ==
    FillSegments("score", scores, animationProgress)
        \o drawGapLines(<<MaxProgress(animationProgress), ProgressUnit>>)

\* drawBenchmarks that does not look at the flag.
drawBenchmarksUngated(benchmarks, animationProgress, flag) ==
    FillSegments("benchmark", benchmarks, animationProgress)

\* drawBenchmarks(benchmarks, animationProgress); flag is showBenchmark.
drawBenchmarks(benchmarks, animationProgress, flag) ==
    IF ~flag THEN <<>>
    ELSE FillSegments("benchmark", benchmarks, animationProgress)

\* drawAverages(averages, animationProgress); flag is showAverage.
drawAverages(averages, animationProgress, flag) ==
    LET pill(category) ==
            LET average == averages[category]
                sliceProg == animationProgress[category]
                averageLayer_idx == FloorTimes10(average) - 1
                tierIndex == averageLayer_idx \div 10
                layerWithinTier == averageLayer_idx % 10
                actualLayer == centerHole
                               + tierIndex * (ringThickness + gapThickness)
                               + layerWithinTier
                part(name) == [kind |-> "average", part |-> name,
                               category |-> category, tier |-> tierIndex,
                               layer |-> actualLayer, value |-> average,
                               progress |-> sliceProg]
            IN  IF average <= 0 THEN <<>>
                ELSE IF sliceProg <= 0 THEN <<>>
                ELSE IF averageLayer_idx < 0 THEN <<>>
                \* sliceProgress > 0.1
                ELSE IF 10 * sliceProg <= ProgressUnit THEN <<>>
                ELSE <<part("arc"), part("startCircle"), part("endCircle")>>
    IN  IF ~flag THEN <<>>
        ELSE pill(0) \o pill(1) \o pill(2) \o pill(3) \o pill(4) \o pill(5)

\* scores[category].toFixed(1), in tenths.  A value halfway between two
\* tenths is rounded by its binary expansion; the model's inputs hold none.
ToFixed1(value) == (value + 5) \div 10

\* let valueDistancePercent = 100, the value the page starts with.
valueDistancePercent == 100

\* gapCenterRadius of the Konva renderer, in tenths of layerThickness:
\* thirdRingOuter * (valueDistancePercent / 100)
KonvaLabelRadius ==
    LET thirdRingOuter == (centerHole + 3 * (ringThickness + gapThickness)) * 10
    IN  (thirdRingOuter * valueDistancePercent) \div 100

\* gapCenterRadius of the canvas renderer (PASS 4), in tenths of
\* layerThickness: ((thirdRingOuter + fourthRingInner) / 2) *
\* (valueDistancePercent / 100)
CanvasLabelRadius ==
    LET thirdRingOuter == (centerHole + 3 * (ringThickness + gapThickness)) * 10
        fourthRingInner ==
            (centerHole + 3 * (ringThickness + gapThickness) + gapThickness) * 10
    IN  (((thirdRingOuter + fourthRingInner) \div 2) * valueDistancePercent) \div 100

\* drawValueLabels(scores)
drawValueLabels(scores) ==
    [i \in 1 .. numCategories |->
        [kind |-> "valueLabel", category |-> i - 1, text |-> ToFixed1(scores[i - 1]),
         radius |-> KonvaLabelRadius]]

\* drawLabels(): category labels if showLabels, then value labels of the
\* CURRENT inputs if showValues.
drawLabels(inputs, labelsFlag, valuesFlag) ==
    (IF labelsFlag
     THEN [i \in 1 .. numCategories |-> [kind |-> "categoryLabel", category |-> i - 1]]
     ELSE <<>>)
    \o (IF valuesFlag THEN drawValueLabels(GetValues(inputs)) ELSE <<>>)

-----------------------------------------------------------------------------
(* Konva renderer: tickers (Konva.Animation objects).  Only the time since *)
(* its start (performance.now() - startTime) matters to a ticker, so that  *)
(* is what is kept: .elapsed is the value its last callback computed, and  *)
(* each callback finds it grown by the frame time.  It stops growing once  *)
(* every progress has reached 1 (a later callback would compute the same). *)

ZeroValues == [c \in Categories |-> 0]

\* No running animateChart ticker (none created yet, or stopped).
NoAnimation ==
    [running |-> FALSE, elapsed |-> 0,
     scores |-> ZeroValues, benchmarks |-> ZeroValues, averages |-> ZeroValues]

NullGridRef == [null |-> TRUE, running |-> FALSE, elapsed |-> 0]
NullDataRef ==
    [null |-> TRUE, running |-> FALSE, elapsed |-> 0,
     scores |-> ZeroValues, benchmarks |-> ZeroValues, averages |-> ZeroValues]

\* if (ref) ref.stop(): the reference stays, the ticker no longer runs.
StopGrid(ref) ==
    IF ref.null THEN ref ELSE [null |-> FALSE, running |-> FALSE, elapsed |-> 0]
StopData(ref) ==
    IF ref.null THEN ref
    ELSE [NullDataRef EXCEPT !.null = FALSE]

\* Data that starts together with the grid.
DataStartDelayNone == (gridAnimationDuration * 0) \div 10

\* const dataStartDelay = gridDuration * 0.3
DataStartDelay == (gridAnimationDuration * 3) \div 10

\* The elapsed time from which a ticker's callback finds everything complete.
SlicesCompleteAt(duration) ==
    (numCategories - 1) * sliceStaggerDelay + EffectiveSliceDuration(duration)
GridCompleteAt == SlicesCompleteAt(gridAnimationDuration)
DataCompleteAt == SlicesCompleteAt(animationDuration)
ChartCompleteAt == Max(GridCompleteAt, DataStartDelay + DataCompleteAt)

\* Time between two callbacks of a ticker.
FrameMs == 540
\* The number of user events followed, and followed under fairness.
MaxUserEvents == 2
MaxFairEvents == 1

\* performance.now() - startTime at the next callback of a ticker.
NextElapsed(ticker, completeAt) == Min(completeAt, ticker.elapsed + FrameMs)

-----------------------------------------------------------------------------
(* Konva renderer: handlers *)

\* updateChart(false): the five draw calls, each replacing its layer.
UpdateChartStatic(sIn, bIn, aIn, fBenchmark, fAverage, fValues, fLabels) ==
    /\ backgroundLayer' = drawBackground(FullProgress, FullTierProgress)
    /\ benchmarkLayer' = drawBenchmarks(GetValues(bIn), FullProgress, fBenchmark)
    /\ scoreLayer' = drawScores(GetValues(sIn), FullProgress)
    /\ averageLayer' = drawAverages(GetValues(aIn), FullProgress, fAverage)
    /\ labelLayer' = drawLabels(sIn, fLabels, fValues)

\* animateChart without its first line (if (isAnimating) return).
animateChartReentrant(scores, benchmarks, averages) ==
    /\ isAnimating' = TRUE
    /\ gridAnimationRef' = StopGrid(gridAnimationRef)
    /\ dataAnimationRef' = StopData(dataAnimationRef)
    /\ backgroundLayer' = <<>>
    /\ scoreLayer' = <<>>
    /\ benchmarkLayer' = <<>>
    /\ averageLayer' = <<>>
    /\ labelLayer' = <<>>
    /\ animation' = [running |-> TRUE, elapsed |-> 0, scores |-> scores,
                     benchmarks |-> benchmarks, averages |-> averages]

\* animateChart(scores, benchmarks, averages)
animateChart(scores, benchmarks, averages) ==
    IF isAnimating
    THEN UNCHANGED <<tickerVars, layerVars>>
    ELSE /\ isAnimating' = TRUE
         /\ gridAnimationRef' = StopGrid(gridAnimationRef)
         /\ dataAnimationRef' = StopData(dataAnimationRef)
         /\ backgroundLayer' = <<>>
         /\ scoreLayer' = <<>>
         /\ benchmarkLayer' = <<>>
         /\ averageLayer' = <<>>
         /\ labelLayer' = <<>>
         /\ animation' = [running |-> TRUE, elapsed |-> 0, scores |-> scores,
                          benchmarks |-> benchmarks, averages |-> averages]

UserEvent(name) ==
    /\ eventsLeft > 0
    /\ eventsLeft' = eventsLeft - 1
    /\ lastEvent' = name

\* click on #replayAnimation: updateChart(true)
ReplayClick ==
    /\ UserEvent("replay")
    /\ animateChart(GetValues(scoreInputs), GetValues(benchmarkInputs),
                    GetValues(averageInputs))
    /\ UNCHANGED <<inputVars, flagVars, kernelVars, canvasVars>>

\* The values generateRandomValues may put in a section: (random*3.5+0.5)
\* .toFixed(1) per field; two sample draws per section.
RandomDraws ==
    { [c \in Categories |-> <<50 + 70 * c>>],
      [c \in Categories |-> <<400 - 70 * c>>] }

\* click on #randomValues: generateRandomValues()
RandomValuesClick ==
    /\ UserEvent("random")
    /\ scoreInputs' \in RandomDraws
    /\ benchmarkInputs' \in RandomDraws
    /\ averageInputs' = scoreInputs'      \* one sample draw for the third section
    /\ animateChart(GetValues(scoreInputs'), GetValues(benchmarkInputs'),
                    GetValues(averageInputs'))
    /\ UNCHANGED <<flagVars, kernelVars, canvasVars>>

\* click on #animateGrid: animateGrid()
AnimateGridClick ==
    /\ UserEvent("animateGrid")
    /\ backgroundLayer' = <<>>
    /\ gridAnimationRef' = [null |-> FALSE, running |-> TRUE, elapsed |-> 0]
    /\ UNCHANGED <<inputVars, flagVars, isAnimating, animation, dataAnimationRef,
                   benchmarkLayer, scoreLayer, averageLayer, labelLayer, kernelVars, canvasVars>>

\* click on #animateData: animateData()
AnimateDataClick ==
    /\ UserEvent("animateData")
    /\ scoreLayer' = <<>>
    /\ benchmarkLayer' = <<>>
    /\ averageLayer' = <<>>
    /\ labelLayer' = <<>>
    /\ dataAnimationRef' =
         [null |-> FALSE, running |-> TRUE, elapsed |-> 0,
          scores |-> GetValues(scoreInputs),
          benchmarks |-> GetValues(benchmarkInputs),
          averages |-> GetValues(averageInputs)]
    /\ UNCHANGED <<inputVars, flagVars, isAnimating, animation, gridAnimationRef,
                   backgroundLayer, kernelVars, canvasVars>>

\* The fields and texts the user edits in the model.
EditCategories == {0}
RawChoices == {NaNInput, <<237>>, <<405>>, <<0 - 5>>}

\* 'input' event of a field: the text changes, then updateChart(false).
EditInput ==
    /\ UserEvent("input")
    /\ \E section \in {"scoreInputs", "benchmarkInputs", "averageInputs"},
          category \in EditCategories, raw \in RawChoices :
        /\ scoreInputs' = IF section = "scoreInputs"
                          THEN [scoreInputs EXCEPT ![category] = raw]
                          ELSE scoreInputs
        /\ benchmarkInputs' = IF section = "benchmarkInputs"
                              THEN [benchmarkInputs EXCEPT ![category] = raw]
                              ELSE benchmarkInputs
        /\ averageInputs' = IF section = "averageInputs"
                            THEN [averageInputs EXCEPT ![category] = raw]
                            ELSE averageInputs
    /\ UpdateChartStatic(scoreInputs', benchmarkInputs', averageInputs',
                         showBenchmark, showAverage, showValues, showLabels)
    /\ UNCHANGED <<flagVars, tickerVars, kernelVars, canvasVars>>

\* toggleVisibility(elementId)
ToggleVisibility ==
    /\ UserEvent("toggle")
    /\ \E elementId \in {"toggleBenchmark", "toggleAverage", "toggleValues", "toggleLabels"} :
        /\ showBenchmark' = IF elementId = "toggleBenchmark" THEN ~showBenchmark ELSE showBenchmark
        /\ showAverage' = IF elementId = "toggleAverage" THEN ~showAverage ELSE showAverage
        /\ showValues' = IF elementId = "toggleValues" THEN ~showValues ELSE showValues
        /\ showLabels' = IF elementId = "toggleLabels" THEN ~showLabels ELSE showLabels
    /\ UpdateChartStatic(scoreInputs, benchmarkInputs, averageInputs,
                         showBenchmark', showAverage', showValues', showLabels')
    /\ UNCHANGED <<inputVars, tickerVars, kernelVars, canvasVars>>

-----------------------------------------------------------------------------
(* Konva renderer: frame callbacks of the three tickers *)

\* The callback of animateChart's ticker.
ChartTick ==
    /\ animation.running
    /\ LET elapsed == NextElapsed(animation, ChartCompleteAt)
           gridSliceProgress ==
               calculateSliceProgress(elapsed, gridAnimationDuration, sliceStaggerDelay)
           gridTierProgress == calculateTierProgress(gridSliceProgress)
           dataElapsed == Max(0, elapsed - DataStartDelay)
           dataSliceProgress ==
               calculateSliceProgress(dataElapsed, animationDuration, sliceStaggerDelay)
           \* the layers after the animated part of the callback
           benchmarkDrawn == IF dataElapsed > 0 /\ showBenchmark
                             THEN drawBenchmarks(animation.benchmarks, dataSliceProgress, showBenchmark)
                             ELSE benchmarkLayer
           scoreDrawn == IF dataElapsed > 0
                         THEN drawScores(animation.scores, dataSliceProgress)
                         ELSE scoreLayer
           averageDrawn == IF dataElapsed > 0 /\ showAverage
                           THEN drawAverages(animation.averages, dataSliceProgress, showAverage)
                           ELSE averageLayer
           gridComplete == AllComplete(gridSliceProgress)
           dataComplete == AllComplete(dataSliceProgress)
       IN  IF gridComplete /\ dataComplete
           THEN \* animation.stop(); isAnimating = false; final clean draw
                /\ animation' = NoAnimation
                /\ isAnimating' = FALSE
                /\ backgroundLayer' = drawBackground(FullProgress, FullTierProgress)
                /\ benchmarkLayer' = IF showBenchmark
                                     THEN drawBenchmarks(animation.benchmarks, FullProgress, showBenchmark)
                                     ELSE benchmarkDrawn
                /\ scoreLayer' = drawScores(animation.scores, FullProgress)
                /\ averageLayer' = IF showAverage
                                   THEN drawAverages(animation.averages, FullProgress, showAverage)
                                   ELSE averageDrawn
                /\ labelLayer' = drawLabels(scoreInputs, showLabels, showValues)
                /\ lastEvent' = "chartFinal"
           ELSE /\ backgroundLayer' = drawBackground(gridSliceProgress, gridTierProgress)
                /\ benchmarkLayer' = benchmarkDrawn
                /\ scoreLayer' = scoreDrawn
                /\ averageLayer' = averageDrawn
                /\ lastEvent' = "chartTick"
                /\ animation' = [animation EXCEPT !.elapsed = elapsed]
                /\ UNCHANGED <<isAnimating, labelLayer>>
    /\ UNCHANGED <<inputVars, flagVars, gridAnimationRef, dataAnimationRef,
                   eventsLeft, kernelVars, canvasVars>>

\* The callback of animateGrid's ticker.
GridTick ==
    /\ gridAnimationRef.running
    /\ LET elapsed == NextElapsed(gridAnimationRef, GridCompleteAt)
           sliceProgress ==
               calculateSliceProgress(elapsed, gridAnimationDuration, sliceStaggerDelay)
           tierProgress == calculateTierProgress(sliceProgress)
       IN  IF AllComplete(sliceProgress)
           THEN /\ gridAnimationRef' = NullGridRef
                /\ backgroundLayer' = drawBackground(FullProgress, FullTierProgress)
                /\ lastEvent' = "gridFinal"
           ELSE /\ backgroundLayer' = drawBackground(sliceProgress, tierProgress)
                /\ lastEvent' = "gridTick"
                /\ gridAnimationRef' = [gridAnimationRef EXCEPT !.elapsed = elapsed]
    /\ UNCHANGED <<inputVars, flagVars, isAnimating, animation, dataAnimationRef,
                   benchmarkLayer, scoreLayer, averageLayer, labelLayer,
                   eventsLeft, kernelVars, canvasVars>>

\* The callback of animateData's ticker.
DataTick ==
    /\ dataAnimationRef.running
    /\ LET ref == dataAnimationRef
           elapsed == NextElapsed(ref, DataCompleteAt)
           sliceProgress ==
               calculateSliceProgress(elapsed, animationDuration, sliceStaggerDelay)
           benchmarkDrawn == IF showBenchmark
                             THEN drawBenchmarks(ref.benchmarks, sliceProgress, showBenchmark)
                             ELSE benchmarkLayer
           averageDrawn == IF showAverage
                           THEN drawAverages(ref.averages, sliceProgress, showAverage)
                           ELSE averageLayer
       IN  IF AllComplete(sliceProgress)
           THEN /\ dataAnimationRef' = NullDataRef
                /\ benchmarkLayer' = IF showBenchmark
                                     THEN drawBenchmarks(ref.benchmarks, FullProgress, showBenchmark)
                                     ELSE benchmarkDrawn
                /\ scoreLayer' = drawScores(ref.scores, FullProgress)
                /\ averageLayer' = IF showAverage
                                   THEN drawAverages(ref.averages, FullProgress, showAverage)
                                   ELSE averageDrawn
                /\ labelLayer' = drawLabels(scoreInputs, showLabels, showValues)
                /\ lastEvent' = "dataFinal"
           ELSE /\ benchmarkLayer' = benchmarkDrawn
                /\ scoreLayer' = drawScores(ref.scores, sliceProgress)
                /\ averageLayer' = averageDrawn
                /\ lastEvent' = "dataTick"
                /\ dataAnimationRef' = [ref EXCEPT !.elapsed = elapsed]
                /\ UNCHANGED labelLayer
    /\ UNCHANGED <<inputVars, flagVars, isAnimating, animation, gridAnimationRef,
                   backgroundLayer, eventsLeft, kernelVars, canvasVars>>

-----------------------------------------------------------------------------
(* The Konva page after DOMContentLoaded: initKonva(), createInputs(),     *)
(* updateChart(true), i.e. animateChart on the initial values.             *)

TierLoopIdle ==
    /\ kValue = 0
    /\ kTier = 0
    /\ kFilled = <<>>
    /\ kConfig = ShippedConfig
    /\ kRings = <<>>

IndicatorIdle ==
    /\ gRenderer = KonvaRenderer
    /\ gAverage = 0
    /\ gCategory = 0
    /\ gSlices = <<>>
    /\ gIndicator = NoIndicator

ProgressIdle ==
    /\ pElapsed = 0
    /\ pDuration = animationDuration
    /\ pProgress = <<>>
    /\ pTier = <<>>

NotCalled == [called |-> FALSE, rejected |-> FALSE]

CallIdle ==
    /\ dArgs = [scores |-> ZeroValues, benchmarks |-> ZeroValues, averages |-> ZeroValues]
    /\ dResult = NotCalled

KernelIdle == TierLoopIdle /\ IndicatorIdle /\ ProgressIdle /\ CallIdle

KonvaPage(budget) ==
    /\ scoreInputs = InitialInputs
    /\ benchmarkInputs = InitialInputs
    /\ averageInputs = InitialInputs
    /\ showBenchmark = TRUE
    /\ showAverage = TRUE
    /\ showValues = FALSE
    /\ showLabels = TRUE
    /\ isAnimating = TRUE
    /\ animation = [running |-> TRUE, elapsed |-> 0,
                    scores |-> GetValues(InitialInputs),
                    benchmarks |-> GetValues(InitialInputs),
                    averages |-> GetValues(InitialInputs)]
    /\ gridAnimationRef = NullGridRef
    /\ dataAnimationRef = NullDataRef
    /\ backgroundLayer = <<>>
    /\ benchmarkLayer = <<>>
    /\ scoreLayer = <<>>
    /\ averageLayer = <<>>
    /\ labelLayer = <<>>
    /\ lastEvent = "init"
    /\ eventsLeft = budget

\* The canvas renderer is not on the Konva page.
CanvasIdle ==
    /\ canvas = <<>>
    /\ pending = <<>>
    /\ downloads = <<>>
    /\ exportLog = <<>>
    /\ svgOutcome = "none"
    /\ userFlags = <<TRUE, TRUE>>

Init == KonvaPage(MaxUserEvents) /\ KernelIdle /\ CanvasIdle
FairInit == KonvaPage(MaxFairEvents) /\ KernelIdle /\ CanvasIdle

Next ==
    \/ ReplayClick
    \/ RandomValuesClick
    \/ AnimateGridClick
    \/ AnimateDataClick
    \/ EditInput
    \/ ToggleVisibility
    \/ ChartTick
    \/ GridTick
    \/ DataTick

Spec == Init /\ [][Next]_vars

\* Konva.Animation re-requests an animation frame for as long as a ticker
\* runs, so the callback of a running animateChart ticker keeps firing.
FairSpec == FairInit /\ [][Next]_vars /\ WF_vars(ChartTick)

-----------------------------------------------------------------------------
(* Canvas renderer (src/unnamed/part_000).  The canvas is the sequence of  *)
(* paint operations since its last clearRect, first painted first; a gap   *)
(* is a destination-out operation that cuts through what lies under it.    *)

RECURSIVE ConcatAll(_, _)
ConcatAll(parts, n) == IF n = 0 THEN <<>> ELSE ConcatAll(parts, n - 1) \o parts[n]

\* drawAverageLayer: the paint operations of one indicator (PASS 2).
IndicatorOps(category, average) ==
    LET averageLayerIdx == FloorTimes10(average) - 1
        tierIndex == averageLayerIdx \div 10
        layerWithinTier == averageLayerIdx % 10
        layerIndex == centerHole + tierIndex * (ringThickness + gapThickness)
                      + layerWithinTier
        part(name) == [kind |-> "average", part |-> name, category |-> category,
                       layer |-> layerIndex]
    IN  IF averageLayerIdx >= 0
        THEN <<part("startCircle"), part("endCircle"), part("protrusions"),
               part("mainShape"), part("outerStroke"), part("innerStroke")>>
        ELSE <<>>

\* drawChart up to its await: clearRect, then PASS 1 to PASS 4.
drawChartSync(scores, benchmarks, averages, fBenchmark, fAverage, fValues) ==
    LET ring(k) ==
            LET category == LoopCategory(k)
                i == LoopTier(k)
                benchmarkLayersFilled == LayersFilled(benchmarks[category], i)
                scoreLayersFilled == LayersFilled(scores[category], i)
            IN  <<[kind |-> "background", category |-> category, tier |-> i]>>
                \o (IF fBenchmark /\ benchmarkLayersFilled > 0
                    THEN <<[kind |-> "benchmark", category |-> category, tier |-> i,
                            layersFilled |-> benchmarkLayersFilled]>>
                    ELSE <<>>)
                \o (IF scoreLayersFilled > 0
                    THEN <<[kind |-> "score", category |-> category, tier |-> i,
                            layersFilled |-> scoreLayersFilled]>>
                    ELSE <<>>)
        indicator(c) == IF fAverage THEN IndicatorOps(c - 1, averages[c - 1]) ELSE <<>>
        gaps == [i \in 1 .. numCategories |-> [kind |-> "gap", boundary |-> i - 1]]
        labels == IF fValues
                  THEN [i \in 1 .. numCategories |->
                           [kind |-> "valueLabel", category |-> i - 1,
                            text |-> ToFixed1(scores[i - 1]),
                            radius |-> CanvasLabelRadius]]
                  ELSE <<>>
    IN  ConcatAll([k \in 1 .. LoopLength |-> ring(k)], LoopLength)
        \o ConcatAll([c \in 1 .. numCategories |-> indicator(c)], numCategories)
        \o gaps
        \o labels

\* A PASS 5 that draws the image even though its load failed.
OverlayDespiteError(loaded) == <<[kind |-> "overlay"]>>

\* try { await loadSVG(...); ctx.drawImage(...) } catch { console.error(...) }
Pass5Outcome(loaded) == IF loaded THEN "drawImage" ELSE "console.error"

\* PASS 5 once loadSVG has settled: ctx.drawImage, or console.error.
Overlay(loaded) == IF loaded THEN <<[kind |-> "overlay"]>> ELSE <<>>

\* A drawChart call of updateChart, suspended in await loadSVG.
ScreenCall == [target |-> "screen"]

\* The three calls of exportAsPNG: (includeBenchmark, includeAverage).
ExportScenarios == << <<FALSE, FALSE>>, <<TRUE, FALSE>>, <<FALSE, TRUE>> >>

\* exportScenario up to its await: the flags are saved and overridden and
\* drawChart runs on a temporary canvas with the values and flags of that
\* moment (drawn).  clickFlags are the flags at the click on #exportPNG,
\* kept for the record only.
ExportCall(n, clickFlags, fBenchmark, fAverage) ==
    [target |-> "export", scenario |-> n, clickFlags |-> clickFlags,
     originalBenchmarkVisibility |-> fBenchmark,
     originalAverageVisibility |-> fAverage,
     drawn |-> [scores |-> GetValues(scoreInputs),
                benchmarks |-> GetValues(benchmarkInputs),
                averages |-> GetValues(averageInputs),
                showBenchmark |-> ExportScenarios[n][1],
                showAverage |-> ExportScenarios[n][2],
                showValues |-> showValues]]

\* The temporary canvas of a suspended exportScenario.
TempCanvas(call) ==
    drawChartSync(call.drawn.scores, call.drawn.benchmarks, call.drawn.averages,
                  call.drawn.showBenchmark, call.drawn.showAverage,
                  call.drawn.showValues)

\* The file downloaded by an exportScenario: link.download, link.click().
Download(call) ==
    [scenario |-> call.scenario, showBenchmark |-> call.drawn.showBenchmark,
     showAverage |-> call.drawn.showAverage]

\* exportScenario that leaves the flags as the export variant set them.
RestoredFlagsForgotten(call) ==
    <<ExportScenarios[call.scenario][1], ExportScenarios[call.scenario][2]>>

\* showBenchmark = originalBenchmarkVisibility;
\* showAverage = originalAverageVisibility;
RestoredFlags(call) ==
    <<call.originalBenchmarkVisibility, call.originalAverageVisibility>>

RemoveAt(seq, k) == SubSeq(seq, 1, k - 1) \o SubSeq(seq, k + 1, Len(seq))

\* updateChart(): drawChart on the on-screen canvas with the given inputs and
\* flags, up to its await.
CanvasUpdateChart(sIn, bIn, aIn, fBenchmark, fAverage, fValues) ==
    /\ canvas' = drawChartSync(GetValues(sIn), GetValues(bIn), GetValues(aIn),
                               fBenchmark, fAverage, fValues)
    /\ pending' = Append(pending, ScreenCall)

\* The fields edited on the canvas page and the text typed into them.
CanvasEditSections == {"benchmarkInputs", "averageInputs"}
CanvasRawChoices == {<<237>>}

\* The number of drawChart calls that may be suspended when the user acts.
MaxPending == 2

\* A user event on the canvas page.
CanvasUserEvent(name) ==
    /\ Len(pending) < MaxPending
    /\ UserEvent(name)
    /\ svgOutcome' = "none"

\* 'input' event of a field: updateChart
CanvasEditInput ==
    /\ CanvasUserEvent("input")
    /\ \E section \in CanvasEditSections, category \in EditCategories,
          raw \in CanvasRawChoices :
        /\ scoreInputs' = IF section = "scoreInputs"
                          THEN [scoreInputs EXCEPT ![category] = raw]
                          ELSE scoreInputs
        /\ benchmarkInputs' = IF section = "benchmarkInputs"
                              THEN [benchmarkInputs EXCEPT ![category] = raw]
                              ELSE benchmarkInputs
        /\ averageInputs' = IF section = "averageInputs"
                            THEN [averageInputs EXCEPT ![category] = raw]
                            ELSE averageInputs
    /\ CanvasUpdateChart(scoreInputs', benchmarkInputs', averageInputs',
                         showBenchmark, showAverage, showValues)
    /\ UNCHANGED <<flagVars, downloads, exportLog, userFlags, kernelVars, konvaVars>>

\* toggleVisibility(elementId)
CanvasToggleVisibility ==
    /\ CanvasUserEvent("toggle")
    /\ \E elementId \in {"toggleBenchmark", "toggleAverage", "toggleValues"} :
        /\ showBenchmark' = IF elementId = "toggleBenchmark" THEN ~showBenchmark ELSE showBenchmark
        /\ showAverage' = IF elementId = "toggleAverage" THEN ~showAverage ELSE showAverage
        /\ showValues' = IF elementId = "toggleValues" THEN ~showValues ELSE showValues
        /\ userFlags' = <<IF elementId = "toggleBenchmark" THEN ~userFlags[1] ELSE userFlags[1],
                          IF elementId = "toggleAverage" THEN ~userFlags[2] ELSE userFlags[2]>>
    /\ CanvasUpdateChart(scoreInputs, benchmarkInputs, averageInputs,
                         showBenchmark', showAverage', showValues')
    /\ UNCHANGED <<inputVars, showLabels, downloads, exportLog, kernelVars, konvaVars>>

\* click on #exportPNG: exportAsPNG up to the await inside its first
\* exportScenario.
ExportClick ==
    /\ CanvasUserEvent("export")
    /\ showBenchmark' = ExportScenarios[1][1]
    /\ showAverage' = ExportScenarios[1][2]
    /\ pending' = Append(pending,
                         ExportCall(1, <<showBenchmark, showAverage>>,
                                    showBenchmark, showAverage))
    /\ UNCHANGED <<inputVars, showValues, showLabels, canvas, downloads, exportLog,
                   userFlags, kernelVars, konvaVars>>

\* loadSVG settles for the k-th suspended drawChart (the image loaded, or
\* its load failed) and the call runs on to its next await or to its end.
SvgSettled ==
    \E k \in 1 .. Len(pending), loaded \in BOOLEAN :
        LET call == pending[k]
            rest == RemoveAt(pending, k)
        IN  /\ svgOutcome' = Pass5Outcome(loaded)
            /\ UNCHANGED userFlags
            /\ IF call.target = "screen"
               THEN /\ canvas' = canvas \o Overlay(loaded)
                    /\ pending' = rest
                    /\ lastEvent' = "overlay"
                    /\ UNCHANGED <<inputVars, flagVars, eventsLeft, downloads, exportLog,
                                   kernelVars, konvaVars>>
               ELSE \* exportScenario after its await: restore, download; then
                    \* exportAsPNG goes on to its next exportScenario, if any
                    LET restored == RestoredFlags(call)
                        n == call.scenario
                    IN  /\ downloads' = Append(downloads, Download(call))
                        /\ IF n < Len(ExportScenarios)
                           THEN /\ showBenchmark' = ExportScenarios[n + 1][1]
                                /\ showAverage' = ExportScenarios[n + 1][2]
                                /\ pending' = Append(rest,
                                       ExportCall(n + 1, call.clickFlags,
                                                  restored[1], restored[2]))
                                /\ lastEvent' = "exportScenario"
                                /\ UNCHANGED exportLog
                           ELSE /\ showBenchmark' = restored[1]
                                /\ showAverage' = restored[2]
                                /\ pending' = rest
                                /\ lastEvent' = "exportDone"
                                /\ exportLog' = <<call.clickFlags>>
                        /\ UNCHANGED <<inputVars, showValues, showLabels, eventsLeft, canvas,
                                       kernelVars, konvaVars>>

\* The Konva renderer is not on the canvas page.
KonvaOff ==
    /\ isAnimating = FALSE
    /\ animation = NoAnimation
    /\ gridAnimationRef = NullGridRef
    /\ dataAnimationRef = NullDataRef
    /\ backgroundLayer = <<>>
    /\ benchmarkLayer = <<>>
    /\ scoreLayer = <<>>
    /\ averageLayer = <<>>
    /\ labelLayer = <<>>

\* The number of user events followed on the canvas page.
MaxCanvasEvents == 3

\* The canvas page after DOMContentLoaded: createInputs(), updateChart().
CanvasInit ==
    /\ scoreInputs = InitialInputs
    /\ benchmarkInputs = InitialInputs
    /\ averageInputs = InitialInputs
    /\ showBenchmark = TRUE
    /\ showAverage = TRUE
    /\ showValues = FALSE
    /\ showLabels = TRUE
    /\ canvas = drawChartSync(GetValues(InitialInputs), GetValues(InitialInputs),
                              GetValues(InitialInputs), TRUE, TRUE, FALSE)
    /\ pending = <<ScreenCall>>
    /\ downloads = <<>>
    /\ exportLog = <<>>
    /\ svgOutcome = "none"
    /\ userFlags = <<TRUE, TRUE>>
    /\ lastEvent = "init"
    /\ eventsLeft = MaxCanvasEvents
    /\ KonvaOff
    /\ KernelIdle

CanvasNext ==
    \/ CanvasEditInput
    \/ CanvasToggleVisibility
    \/ ExportClick
    \/ SvgSettled

SpecCanvas == CanvasInit /\ [][CanvasNext]_vars

\* One iteration of the tier loop of a static draw: the tier's filled
\* sub-layer count is computed and the segment, if any, is drawn.
KernelTierStep ==
    /\ kTier < numTiers
    /\ kRings' = Append(kRings, getRingBounds(kConfig, kTier))
    /\ kFilled' = Append(kFilled, LayersFilled(kValue, kTier))
    /\ kTier' = kTier + 1
    /\ UNCHANGED <<kValue, kConfig, indicatorVars, progressVars, callVars, pageVars, konvaVars, canvasVars>>

\* The next category of the category loop: another value, tier loop restarted.
KernelNextCategory ==
    /\ kTier = numTiers
    /\ kValue' \in 0 .. MaxValue
    /\ kTier' = 0
    /\ kFilled' = <<>>
    /\ kRings' = <<>>
    /\ UNCHANGED <<kConfig, indicatorVars, progressVars, callVars, pageVars, konvaVars, canvasVars>>

KernelInit ==
    /\ kValue \in 0 .. MaxValue
    /\ kTier = 0
    /\ kFilled = <<>>
    /\ kConfig = ShippedConfig
    /\ kRings = <<>>
    /\ IndicatorIdle
    /\ ProgressIdle
    /\ CallIdle
    /\ KonvaPage(0)
    /\ CanvasIdle

KernelNext == KernelTierStep \/ KernelNextCategory

SpecKernel == KernelInit /\ [][KernelNext]_vars

\* One iteration of the category loop: the wedge angles of the category and
\* its average indicator, if the value gives one.
IndicatorStep ==
    /\ gCategory < numCategories
    /\ gSlices' = Append(gSlices, SliceAngles(gCategory))
    /\ gIndicator' = IndicatorOf(gRenderer, gCategory, gAverage)
    /\ gCategory' = gCategory + 1
    /\ UNCHANGED <<gRenderer, gAverage, tierVars, progressVars, callVars, pageVars, konvaVars, canvasVars>>

\* The next render: another average value, category loop restarted.
IndicatorNextRender ==
    /\ gCategory = numCategories
    /\ gAverage' \in 0 .. MaxValue
    /\ gCategory' = 0
    /\ gSlices' = <<>>
    /\ gIndicator' = NoIndicator
    /\ UNCHANGED <<gRenderer, tierVars, progressVars, callVars, pageVars, konvaVars, canvasVars>>

IndicatorInit ==
    /\ gRenderer \in Renderers
    /\ gAverage \in 0 .. MaxValue
    /\ gCategory = 0
    /\ gSlices = <<>>
    /\ gIndicator = NoIndicator
    /\ TierLoopIdle
    /\ ProgressIdle
    /\ CallIdle
    /\ KonvaPage(0)
    /\ CanvasIdle

IndicatorNext == IndicatorStep \/ IndicatorNextRender

SpecIndicator == IndicatorInit /\ [][IndicatorNext]_vars

\* drawAverageLayer by itself, on every layer index of the layer budget and
\* not only on those the category loop hands it.
InvokeDrawAverageLayer ==
    /\ \E layerIndex \in 0 .. (totalLayers - 1), category \in Categories :
        gIndicator' = drawAverageLayer(gRenderer, layerIndex, SliceAngles(category))
    /\ UNCHANGED <<gRenderer, gAverage, gCategory, gSlices,
                   tierVars, progressVars, callVars, pageVars, konvaVars, canvasVars>>

LayerFunctionInit ==
    /\ gRenderer \in Renderers
    /\ gAverage = 0
    /\ gCategory = 0
    /\ gSlices = <<>>
    /\ gIndicator = NoIndicator
    /\ TierLoopIdle
    /\ ProgressIdle
    /\ CallIdle
    /\ KonvaPage(0)
    /\ CanvasIdle

SpecLayerFunction == LayerFunctionInit /\ [][InvokeDrawAverageLayer]_vars

\* The configuration is a constant of each source file.  SpecConfig runs the
\* same loop on configurations around the shipped one, to see what the
\* geometry code does with a configuration that is not the shipped one.
ConfigSpread == 2

Configurations ==
    { [ShippedConfig EXCEPT !.totalLayers = n, !.centerHole = h] :
        n \in (totalLayers - ConfigSpread) .. (totalLayers + ConfigSpread),
        h \in (centerHole - ConfigSpread) .. (centerHole + ConfigSpread) }

ConfigValues == {0, 230, 400}

ConfigInit ==
    /\ kValue \in ConfigValues
    /\ kTier = 0
    /\ kFilled = <<>>
    /\ kConfig \in Configurations
    /\ kRings = <<>>
    /\ IndicatorIdle
    /\ ProgressIdle
    /\ CallIdle
    /\ KonvaPage(0)
    /\ CanvasIdle

\* The next category of the category loop, under the same configuration.
ConfigNextCategory ==
    /\ kTier = numTiers
    /\ kValue' \in ConfigValues
    /\ kTier' = 0
    /\ kFilled' = <<>>
    /\ kRings' = <<>>
    /\ UNCHANGED <<kConfig, indicatorVars, progressVars, callVars, pageVars, konvaVars, canvasVars>>

ConfigNext == KernelTierStep \/ ConfigNextCategory

SpecConfig == ConfigInit /\ [][ConfigNext]_vars

-----------------------------------------------------------------------------
(* calculateSliceProgress as the animation frames call it: with the grid  *)
(* or the data duration, CONFIG.sliceStaggerDelay, and an elapsed time     *)
(* (performance.now() - startTime) that only grows.                        *)

MaxElapsed == 2100
FrameSteps == {1, 10, 150}

SliceProgressFrame ==
    /\ \E step \in FrameSteps :
        /\ pElapsed + step <= MaxElapsed
        /\ pElapsed' = pElapsed + step
    /\ pProgress' = calculateSliceProgress(pElapsed', pDuration, sliceStaggerDelay)
    /\ pTier' = calculateTierProgress(pProgress')
    /\ UNCHANGED <<pDuration, tierVars, indicatorVars, callVars, pageVars, konvaVars,
                   canvasVars>>

SliceProgressInit ==
    /\ pDuration \in {animationDuration, gridAnimationDuration}
    /\ pElapsed = 0
    /\ pProgress = calculateSliceProgress(0, pDuration, sliceStaggerDelay)
    /\ pTier = calculateTierProgress(pProgress)
    /\ TierLoopIdle
    /\ IndicatorIdle
    /\ CallIdle
    /\ KonvaPage(0)
    /\ CanvasIdle

SpecSliceProgress == SliceProgressInit /\ [][SliceProgressFrame]_vars

-----------------------------------------------------------------------------
(* drawChart of the canvas renderer called with arrays of any length.  An  *)
(* element past the end of an array is undefined: undefined * 10 is NaN,   *)
(* Math.max/Math.min/Math.floor keep it NaN, and NaN > 0 and NaN >= 0 are   *)
(* false, so nothing is filled for it, as for a value of 0; but            *)
(* undefined.toFixed(1) in PASS 4 throws a TypeError.                      *)

\* The lengths of the arrays passed, and the value of their elements.
ArrayLengths == {0, 5, 6, 7}
ArrayOf(n) == [c \in 0 .. (n - 1) |-> 230]

\* What passes 1 and 2 make of scores[category] for every category.
FillValues(values) == [c \in Categories |-> IF c \in DOMAIN values THEN values[c] ELSE 0]

\* The categories PASS 4 labels before scores[category].toFixed(1) throws.
LabelledBeforeThrow(scores) ==
    {c \in Categories : \A b \in 0 .. c : b \in DOMAIN scores}

\* PASS 4 throws: its promise rejects and the call never reaches PASS 5.
Pass4Throws(scores, fValues) == fValues /\ LabelledBeforeThrow(scores) # Categories

\* drawChart(ctx, canvasSize, canvasSize, scores, benchmarks, averages) up to
\* its await, or up to the TypeError.
drawChartOn(scores, benchmarks, averages) ==
    LET painted == drawChartSync(FillValues(scores), FillValues(benchmarks),
                                 FillValues(averages), showBenchmark, showAverage, FALSE)
        labels == IF showValues
                  THEN [i \in 1 .. Cardinality(LabelledBeforeThrow(scores)) |->
                           [kind |-> "valueLabel", category |-> i - 1,
                            text |-> ToFixed1(scores[i - 1]),
                            radius |-> CanvasLabelRadius]]
                  ELSE <<>>
    IN  painted \o labels

InvokeDrawChart ==
    /\ ~dResult.called
    /\ canvas' = drawChartOn(dArgs.scores, dArgs.benchmarks, dArgs.averages)
    /\ dResult' = [called |-> TRUE, rejected |-> Pass4Throws(dArgs.scores, showValues)]
    /\ pending' = IF Pass4Throws(dArgs.scores, showValues) THEN pending
                  ELSE Append(pending, ScreenCall)
    /\ UNCHANGED <<dArgs, tierVars, indicatorVars, progressVars, pageVars, konvaVars,
                   downloads, exportLog, svgOutcome, userFlags>>

DrawCallInit ==
    /\ dArgs \in [scores : {ArrayOf(n) : n \in ArrayLengths},
                  benchmarks : {ArrayOf(n) : n \in ArrayLengths},
                  averages : {ArrayOf(n) : n \in ArrayLengths}]
    /\ dResult = NotCalled
    /\ scoreInputs = InitialInputs
    /\ benchmarkInputs = InitialInputs
    /\ averageInputs = InitialInputs
    /\ showBenchmark = TRUE
    /\ showAverage = TRUE
    /\ showValues \in BOOLEAN
    /\ showLabels = TRUE
    /\ lastEvent = "init"
    /\ eventsLeft = 0
    /\ KonvaOff
    /\ CanvasIdle
    /\ TierLoopIdle
    /\ IndicatorIdle
    /\ ProgressIdle

SpecDrawCall == DrawCallInit /\ [][InvokeDrawChart]_vars

-----------------------------------------------------------------------------
(* Claims on the geometry kernel *)

RECURSIVE SumSeq(_)
SumSeq(s) == IF s = <<>> THEN 0 ELSE Head(s) + SumSeq(Tail(s))

\* C1: for every value in [0,4] and tier in 0..3 the sub-tier fill is
\* clamp(0, 10, floor(v*10) - 10*t), it is non-decreasing in v for each tier,
\* and the four per-tier counts add up to floor(v*10).
C1_FillFraction ==
    /\ \A i \in 1 .. Len(kFilled) :
        /\ kFilled[i] \in 0 .. 10
        /\ kFilled[i] = IF (kValue \div 10) - 10 * (i - 1) < 0 THEN 0
                        ELSE IF (kValue \div 10) - 10 * (i - 1) > 10 THEN 10
                        ELSE (kValue \div 10) - 10 * (i - 1)
        /\ \A w \in 0 .. kValue : LayersFilled(w, i - 1) <= kFilled[i]
    /\ kTier = numTiers => SumSeq(kFilled) = kValue \div 10

C1_Witness ==
    /\ kTier = numTiers
    /\ kValue = 230
    /\ kFilled = <<10, 10, 3, 0>>

\* C2: the static fill of a category is contiguous from the inside out: a
\* tier is non-empty only if every lower tier is full, and partially filled
\* only if every higher tier is empty; 0 fills nothing, 4.0 fills all four
\* tiers, 2.3 gives full, full, 3/10, empty.
C2_Contiguous ==
    /\ \A i \in 1 .. Len(kFilled) :
        /\ kFilled[i] > 0 => \A j \in 1 .. (i - 1) : kFilled[j] = 10
        /\ kFilled[i] < 10 => \A j \in (i + 1) .. Len(kFilled) : kFilled[j] = 0
    /\ kTier = numTiers =>
        /\ kValue = 0 => kFilled = <<0, 0, 0, 0>>
        /\ kValue = 400 => kFilled = <<10, 10, 10, 10>>
        /\ kValue = 230 => kFilled = <<10, 10, 3, 0>>

C2_Witness ==
    /\ kTier = numTiers
    /\ kValue = 400
    /\ kFilled = <<10, 10, 10, 10>>

\* totalLayers == centerHole + tierCount*ringThickness + (tierCount-1)*gapThickness
LayerBudgetHolds(config) ==
    config.totalLayers = config.centerHole + numTiers * config.ringThickness
                         + (numTiers - 1) * config.gapThickness

\* C12: the configuration satisfies the layer budget equation
\* (67 = 18 + 4*10 + 3*3), so the outermost ring ends exactly at layer
\* totalLayers (maxRadius); nothing is rendered from a configuration that
\* violates the equation.
C12_LayerBudget ==
    /\ LayerBudgetHolds(ShippedConfig)
    /\ totalLayers = 67 /\ 18 + 4 * 10 + 3 * 3 = 67
    /\ kRings # <<>> => LayerBudgetHolds(kConfig)
    /\ kTier = numTiers => kRings[numTiers].endRadius = kConfig.totalLayers

\* C13: the ring of tier t starts at centerHole + t*(ringThickness +
\* gapThickness) layers and ends ringThickness layers further; starts and
\* ends grow strictly with t and adjacent rings do not overlap:
\* end(t) + gapThickness = start(t+1) > end(t).
C13_RingBounds ==
    /\ \A i \in 1 .. Len(kRings) :
        /\ kRings[i].startRadius = centerHole + (i - 1) * (ringThickness + gapThickness)
        /\ kRings[i].endRadius = kRings[i].startRadius + ringThickness
    /\ \A i \in 1 .. (Len(kRings) - 1) :
        /\ kRings[i].startRadius < kRings[i + 1].startRadius
        /\ kRings[i].endRadius < kRings[i + 1].endRadius
        /\ kRings[i].endRadius + gapThickness = kRings[i + 1].startRadius
        /\ kRings[i + 1].startRadius > kRings[i].endRadius

C13_Witness ==
    /\ kTier = numTiers
    /\ kRings = << [startRadius |-> 18, endRadius |-> 28],
                   [startRadius |-> 31, endRadius |-> 41],
                   [startRadius |-> 44, endRadius |-> 54],
                   [startRadius |-> 57, endRadius |-> 67] >>

\* C14: the six wedges partition the circle from the top: wedge c starts at
\* c*60 - 90 degrees and spans 60 degrees, each wedge ends where the next one
\* starts, the last one ends a full turn after the first one starts, and
\* the six gap cutouts of either renderer lie on the six wedge starts.
C14_SlicePartition ==
    /\ \A i \in 1 .. Len(gSlices) :
        /\ gSlices[i].startAngle = (i - 1) * 60 - 90
        /\ gSlices[i].endAngle = gSlices[i].startAngle + 60
    /\ \A i \in 1 .. (Len(gSlices) - 1) : gSlices[i].endAngle = gSlices[i + 1].startAngle
    /\ Len(gSlices) = numCategories =>
        /\ gSlices[numCategories].endAngle = gSlices[1].startAngle + 360
        /\ \A i \in 1 .. numCategories :
            /\ CanvasGapDirection(i - 1) = gSlices[i].startAngle
            /\ KonvaGapDirection(i - 1) = gSlices[i].startAngle

C14_Witness ==
    /\ gCategory = numCategories
    /\ Len(gSlices) = numCategories
    /\ gSlices[1] = [startAngle |-> -90, endAngle |-> -30]
    /\ gSlices[6] = [startAngle |-> 210, endAngle |-> 270]

\* C15: the indicator layer index is floor(v*10) - 1; a negative index gives
\* no indicator and no tier decomposition; otherwise tierIndex is in 0..3,
\* layerWithinTier in 0..9 and the absolute layer lies inside the ring of
\* tier tierIndex; v = 2.5 gives index 24, tier 2, band 4.
C15_AverageLayerIndex ==
    gCategory > 0 =>
        IF (gAverage \div 10) - 1 < 0
        THEN gIndicator = NoIndicator
        ELSE /\ gIndicator.drawn
             /\ gIndicator.averageLayerIdx = (gAverage \div 10) - 1
             /\ gIndicator.tierIndex \in 0 .. 3
             /\ gIndicator.tierIndex * 10 <= gIndicator.averageLayerIdx
             /\ gIndicator.averageLayerIdx < (gIndicator.tierIndex + 1) * 10
             /\ gIndicator.layerWithinTier \in 0 .. 9
             /\ gIndicator.layerWithinTier
                    = gIndicator.averageLayerIdx - 10 * gIndicator.tierIndex
             /\ gIndicator.layerIndex
                    = centerHole + gIndicator.tierIndex * (ringThickness + gapThickness)
                      + gIndicator.layerWithinTier
             /\ RingStart(gIndicator.tierIndex) <= gIndicator.layerIndex
             /\ gIndicator.layerIndex + 1 <= RingEnd(gIndicator.tierIndex)
             /\ gAverage = 250 =>
                    /\ gIndicator.averageLayerIdx = 24
                    /\ gIndicator.tierIndex = 2
                    /\ gIndicator.layerWithinTier = 4

C15_Witness ==
    /\ gAverage = 250
    /\ gIndicator.drawn
    /\ gIndicator.averageLayerIdx = 24
    /\ gIndicator.layerIndex = 48

C15_WitnessNone ==
    /\ gAverage = 9
    /\ gCategory = numCategories
    /\ gIndicator = NoIndicator

\* C16: the indicator geometry never takes asin outside [-1, 1]: whatever
\* layer index and canvas size it is computed for, the argument
\* protrusion / midRadius is at most 1 and no angle of the pill is NaN.
C16_AsinInDomain ==
    gIndicator.drawn =>
        /\ AsinDefined(gIndicator.ratio)
        /\ ~gIndicator.startCircle.angle.nan
        /\ ~gIndicator.endCircle.angle.nan
        /\ ~gIndicator.mainShape.startAngle.nan
        /\ ~gIndicator.mainShape.endAngle.nan

\* C17: for every indicator of an average value, at the display, on-screen
\* and export sizes, the protrusion angle is positive and at most half the
\* slice angle: 0 < protrusion / midRadius <= 1/2 = sin(30 degrees).
C17_ProtrusionAngle ==
    gIndicator.drawn =>
        /\ gIndicator.ratio[1] > 0
        /\ gIndicator.ratio[2] > 0
        /\ FracLeq(gIndicator.ratio, HalfSlice)

C17_Witness ==
    /\ gRenderer = ExportRenderer
    /\ gIndicator.drawn
    /\ gIndicator.layerIndex = centerHole
    /\ gCategory = numCategories

\* C18: the main body's angles are those of the caps clamped to the slice:
\* start = max(sliceStart, mid - protrusionAngle), end = min(sliceEnd, mid +
\* protrusionAngle), so sliceStart <= start <= end <= sliceEnd; the end caps
\* and the protrusions band keep the unclamped mid -/+ protrusionAngle.
C18_MainBodyClamped ==
    gIndicator.drawn =>
        LET mid == (gIndicator.slice.startAngle + gIndicator.slice.endAngle) \div 2
            sliceStart == AngleAt(mid, <<-1, 2>>)
            sliceEnd == AngleAt(mid, <<1, 2>>)
            lower == AngleAt(mid, <<0 - gIndicator.ratio[1], gIndicator.ratio[2]>>)
            upper == AngleAt(mid, gIndicator.ratio)
            main == gIndicator.mainShape
        IN  /\ 2 * mid = gIndicator.slice.startAngle + gIndicator.slice.endAngle
            /\ gIndicator.slice.startAngle = mid - 30
            /\ gIndicator.slice.endAngle = mid + 30
            /\ main.startAngle = MaxAngle(sliceStart, lower)
            /\ main.endAngle = MinAngle(sliceEnd, upper)
            /\ ~main.startAngle.nan /\ ~main.endAngle.nan
            /\ FracLeq(sliceStart.sine, main.startAngle.sine)
            /\ FracLeq(main.startAngle.sine, main.endAngle.sine)
            /\ FracLeq(main.endAngle.sine, sliceEnd.sine)
            /\ gIndicator.startCircle.angle = lower
            /\ gIndicator.endCircle.angle = upper
            /\ gIndicator.protrusions.startAngle = lower
            /\ gIndicator.protrusions.endAngle = upper

C18_Witness ==
    /\ gRenderer = ScreenRenderer
    /\ gIndicator.drawn
    /\ gIndicator.category = 5
    /\ gIndicator.mainShape.startAngle = gIndicator.startCircle.angle
    /\ gIndicator.mainShape.endAngle.sine = gIndicator.ratio

\* C19: the pill is centred on its layer, mid radius (layerIndex + 1/2)
\* layerThickness with inner and outer radius symmetric about it, and its
\* radial thickness is 1.2 layerThickness (radii in tenths of it).
C19_PillThickness ==
    (gIndicator.drawn /\ gIndicator.renderer.name = "canvas") =>
        /\ gIndicator.midRadius = 10 * gIndicator.layerIndex + 5
        /\ gIndicator.midRadius - gIndicator.mainShape.startRadius
              = gIndicator.mainShape.endRadius - gIndicator.midRadius
        /\ gIndicator.mainShape.endRadius - gIndicator.mainShape.startRadius = 12

\* C20: calculateSliceProgress gives slice i progress 0 while elapsed <=
\* i * staggerDelay and min(1, (elapsed - i * staggerDelay) / (duration *
\* (1 - overlap * 0.5))) afterwards, so it is 1 exactly from the moment the
\* slice's own elapsed time reaches duration * 0.7; every value is in [0, 1],
\* never decreases as elapsed grows and never increases with the slice
\* index; at elapsed = 150 with duration 1200 slice 0 is above 0 and slices
\* 1 and 5 are at 0.
C20_Values ==
    /\ DOMAIN pProgress = Categories
    /\ \A i \in Categories :
        LET own == pElapsed - i * 150
            p == pProgress[i]
        IN  /\ p >= 0 /\ p <= ProgressUnit
            /\ (pElapsed <= i * 150) => p = 0
            /\ (pElapsed > i * 150) =>
                  /\ p > 0
                  /\ IF 10 * own >= 7 * pDuration
                     THEN p = ProgressUnit
                     ELSE 7 * pDuration * p = 10 * own * ProgressUnit
            /\ (p = ProgressUnit) <=> (10 * own >= 7 * pDuration)
            /\ (i + 1 \in Categories) => pProgress[i + 1] <= p
    /\ (pDuration = 1200 /\ pElapsed = 150) =>
          (pProgress[0] > 0 /\ pProgress[1] = 0 /\ pProgress[5] = 0)

C20_SliceProgress ==
    /\ []C20_Values
    /\ [][pElapsed' >= pElapsed =>
            \A i \in Categories : pProgress'[i] >= pProgress[i]]_vars

C20_Witness ==
    /\ pDuration = 1200
    /\ pElapsed = 150
    /\ pProgress[0] * 840 = 150 * ProgressUnit
    /\ pProgress[1] = 0
    /\ pProgress[5] = 0

C20_WitnessComplete ==
    /\ pDuration = 1200
    /\ pElapsed = 5 * 150 + 840
    /\ pProgress[5] = ProgressUnit

\* C21: rendering is resolution-invariant: the indicator drawn on the export
\* canvas (twice the on-screen width) has the same angles as the one drawn
\* on screen for the same average, the same radii in units of the layer
\* thickness, and a protrusion distance and a stroke width twice as long.
C21_ResolutionInvariant ==
    (gIndicator.drawn /\ gRenderer = ExportRenderer) =>
        LET screen == IndicatorOf(ScreenRenderer, gIndicator.category, gAverage)
            k == ExportRenderer.canvasWidth \div ScreenRenderer.canvasWidth
        IN  /\ gIndicator.mainShape.startRadius = screen.mainShape.startRadius
            /\ gIndicator.mainShape.endRadius = screen.mainShape.endRadius
            /\ gIndicator.midRadius = screen.midRadius
            /\ gIndicator.renderer.protrusion = k * screen.renderer.protrusion
            /\ gIndicator.strokeWidth = k * screen.strokeWidth
            /\ gIndicator.startCircle.angle = screen.startCircle.angle
            /\ gIndicator.endCircle.angle = screen.endCircle.angle
            /\ gIndicator.mainShape.startAngle = screen.mainShape.startAngle
            /\ gIndicator.mainShape.endAngle = screen.mainShape.endAngle

\* C26: calculateTierProgress gives tier t of a slice with progress p the
\* value (p - 0.15 t) / (1 - 0.15 t) clamped to [0, 1]: 0 while p <= 0.15 t,
\* never decreasing as p grows, never larger for an outer tier than for an
\* inner one, equal to p for tier 0, and 1 exactly when p = 1.
C26_Values ==
    /\ DOMAIN pTier = Categories
    /\ \A i \in Categories : \A t \in Tiers :
        LET p == pProgress[i]
            num == pTier[i][t][1]
            den == pTier[i][t][2]
            raw == 20 * p - 3 * t * ProgressUnit
        IN  /\ den = (20 - 3 * t) * ProgressUnit
            /\ num >= 0 /\ num <= den
            /\ num = IF raw <= 0 THEN 0 ELSE IF raw >= den THEN den ELSE raw
            /\ (20 * p <= 3 * t * ProgressUnit) => num = 0
            /\ (num = den) <=> (p = ProgressUnit)
            /\ (t = 0) => num * ProgressUnit = p * den
            /\ (t + 1 \in Tiers) =>
                  pTier[i][t + 1][1] * (20 - 3 * t) <= num * (20 - 3 * (t + 1))
    /\ \A i \in Categories :
          (\A t \in Tiers : pTier[i][t][1] = pTier[i][t][2]) <=> (pProgress[i] = ProgressUnit)

C26_TierProgress ==
    /\ []C26_Values
    /\ [][\A i \in Categories : \A t \in Tiers :
            pProgress'[i] >= pProgress[i] => pTier'[i][t][1] >= pTier[i][t][1]]_vars

C26_Witness ==
    /\ pDuration = 1200
    /\ pElapsed = 420
    /\ 2 * pProgress[0] = ProgressUnit
    /\ pTier[0][0] = <<10 * ProgressUnit, 20 * ProgressUnit>>
    /\ pTier[0][3] = <<ProgressUnit, 11 * ProgressUnit>>
    /\ pTier[3][1][1] = 0

-----------------------------------------------------------------------------
(* Claims on the Konva animation scheduler and compositor *)

AnyTickerRunning ==
    animation.running \/ gridAnimationRef.running \/ dataAnimationRef.running

\* The static render of the given values under the current flags.
StaticBackground == drawBackground(FullProgress, FullTierProgress)
StaticBenchmarks(benchmarks) == drawBenchmarks(benchmarks, FullProgress, showBenchmark)
StaticScores(scores) == drawScores(scores, FullProgress)
StaticAverages(averages) == drawAverages(averages, FullProgress, showAverage)

\* C3: animateChart called while isAnimating is a no-op: no layer is cleared,
\* no ticker is stopped or created, the running animation keeps its start
\* time and its captured data.
C3_ReentryIsNoOp ==
    [][(isAnimating /\ eventsLeft' # eventsLeft /\ lastEvent' \in {"replay", "random"})
        => UNCHANGED <<tickerVars, layerVars>>]_vars

C3_Witness ==
    /\ lastEvent = "replay"
    /\ isAnimating
    /\ animation.elapsed > 0
    /\ backgroundLayer # <<>>

\* C4: at most one animation ticker is active, and never two active tickers
\* that redraw the same layer (animateChart's with animateGrid's on the
\* background layer, animateChart's with animateData's on the data layers).
C4_AtMostOneTicker ==
    /\ ~(animation.running /\ gridAnimationRef.running)
    /\ ~(animation.running /\ dataAnimationRef.running)
    /\ ~(gridAnimationRef.running /\ dataAnimationRef.running)

\* C5: a static redraw (input edit or visibility toggle) stops a running
\* animation, so the next thing to happen is never an animation tick that
\* draws a partial frame over the static one.
C5_StaticRedrawStopsAnimation ==
    [][(lastEvent \in {"input", "toggle"})
        => /\ ~AnyTickerRunning
           /\ lastEvent' \notin {"chartTick", "gridTick", "dataTick"}]_vars

\* C6: once animateChart has set isAnimating, the animation finishes; the
\* tick that finishes it stops the ticker and leaves every layer holding the
\* non-animated (progress = 1) render of the captured data and the labels;
\* afterwards the ticker does not run, so no further tick draws.
C6_AnimationFinishes ==
    /\ [](isAnimating => <>(~isAnimating))
    /\ [](~isAnimating => ~animation.running)
    /\ [][(isAnimating /\ ~isAnimating')
           => /\ lastEvent' = "chartFinal"
              /\ ~animation'.running
              /\ backgroundLayer' = StaticBackground
              /\ benchmarkLayer' = StaticBenchmarks(animation.benchmarks)
              /\ scoreLayer' = StaticScores(animation.scores)
              /\ averageLayer' = StaticAverages(animation.averages)
              /\ labelLayer' = drawLabels(scoreInputs, showLabels, showValues)]_vars

C6_Witness ==
    /\ lastEvent = "chartFinal"
    /\ ~isAnimating
    /\ ~animation.running
    /\ \E i \in 1 .. Len(scoreLayer) : scoreLayer[i].kind = "score"

\* The stage's children bottom to top (initKonva), each layer's children in
\* the order they were added.
Stack == backgroundLayer \o benchmarkLayer \o scoreLayer \o averageLayer \o labelLayer

ZRank(kind) ==
    CASE kind = "background" -> 1
      [] kind = "benchmark" -> 2
      [] kind = "score" -> 3
      [] kind = "average" -> 4
      [] kind = "gap" -> 5
      [] kind = "valueLabel" -> 6
      [] kind = "categoryLabel" -> 7
      [] OTHER -> 8

\* C8: what a composition leaves is stacked bottom to top in the fixed order
\* background, benchmark, score, average, gap cutouts, value labels,
\* category labels; nothing of a lower rank lies above a higher one.
C8_FixedZOrder ==
    \A i, j \in 1 .. Len(Stack) :
        i < j => ZRank(Stack[i].kind) <= ZRank(Stack[j].kind)

\* C9: after a completed render every background, benchmark, score and
\* average shape has the gap cutouts above it.
C9_GapsCutEveryDataLayer ==
    lastEvent \in {"input", "toggle", "chartFinal"} =>
        \A i \in 1 .. Len(Stack) :
            Stack[i].kind \in {"background", "benchmark", "score", "average"}
                => \E j \in (i + 1) .. Len(Stack) : Stack[j].kind = "gap"

\* C10: a flag that is off leaves its layer without shapes: no benchmark
\* shape, no average indicator, no value label, no category label.
C10_FlagsGateLayers ==
    /\ ~showBenchmark => benchmarkLayer = <<>>
    /\ ~showAverage => averageLayer = <<>>
    /\ ~showValues => \A i \in 1 .. Len(labelLayer) : labelLayer[i].kind # "valueLabel"
    /\ ~showLabels => \A i \in 1 .. Len(labelLayer) : labelLayer[i].kind # "categoryLabel"

C10_Witness ==
    /\ lastEvent = "toggle"
    /\ ~showBenchmark
    /\ GetValues(benchmarkInputs)[0] > 0
    /\ benchmarkLayer = <<>>
    /\ \E i \in 1 .. Len(scoreLayer) : scoreLayer[i].kind = "gap"

\* A shape drawn with progress 1: full sweep, full build, full opacity.
FullyDrawn(shape) ==
    CASE shape.kind = "background" ->
            shape.sweep = ProgressUnit /\ shape.build[1] = shape.build[2]
      [] shape.kind = "gap" -> shape.opacity[1] = shape.opacity[2]
      [] shape.kind \in {"score", "benchmark", "average"} -> shape.progress = ProgressUnit
      [] OTHER -> TRUE

DataLayers == backgroundLayer \o benchmarkLayer \o scoreLayer \o averageLayer

\* C11: a redraw replaces a layer's content: after a static redraw every
\* layer holds exactly the static render of the current inputs and flags,
\* whatever it held before; a second static redraw with the same inputs and
\* flags changes no layer; the final redraw of an animation leaves the static
\* render of the animated values, and after either kind of redraw no shape
\* drawn with progress below 1 is left.
C11_RenderReplaces ==
    /\ [](lastEvent \in {"input", "toggle"} =>
            /\ backgroundLayer = StaticBackground
            /\ benchmarkLayer = StaticBenchmarks(GetValues(benchmarkInputs))
            /\ scoreLayer = StaticScores(GetValues(scoreInputs))
            /\ averageLayer = StaticAverages(GetValues(averageInputs))
            /\ labelLayer = drawLabels(scoreInputs, showLabels, showValues))
    /\ [](lastEvent \in {"input", "toggle", "chartFinal"} =>
            \A i \in 1 .. Len(DataLayers) : FullyDrawn(DataLayers[i]))
    /\ [][(/\ lastEvent \in {"input", "toggle"}
            /\ lastEvent' \in {"input", "toggle"}
            /\ UNCHANGED <<inputVars, flagVars>>)
           => UNCHANGED layerVars]_vars
    /\ [][lastEvent' = "chartFinal"
           => /\ backgroundLayer' = StaticBackground
              /\ benchmarkLayer' = StaticBenchmarks(animation.benchmarks)
              /\ scoreLayer' = StaticScores(animation.scores)
              /\ averageLayer' = StaticAverages(animation.averages)]_vars

C11_Witness ==
    /\ lastEvent = "input"
    /\ animation.running /\ animation.elapsed > 0
    /\ \E i \in 1 .. Len(scoreLayer) : scoreLayer[i].kind = "score"
    /\ \E i \in 1 .. Len(averageLayer) : averageLayer[i].kind = "average"

-----------------------------------------------------------------------------
(* Claims on the canvas renderer's export *)

\* C27: in animateChart the grid leads the data.  A tick whose elapsed time
\* is at most 0.3 * gridAnimationDuration = 540 ms draws the background only
\* and leaves the benchmark, score and average layers as they were; a later
\* tick draws the data; and the tick is the final one exactly when every
\* grid slice (elapsed >= 5 * 150 + 1260) and every data slice (elapsed - 540
\* >= 5 * 150 + 840) has progress 1.
C27_GridLeadsData ==
    [][(animation.running /\ lastEvent' \in {"chartTick", "chartFinal"}) =>
        LET elapsed == IF lastEvent' = "chartTick" THEN animation'.elapsed
                       ELSE Min(2130, animation.elapsed + FrameMs)
        IN  /\ elapsed > animation.elapsed
            /\ (elapsed <= 540) =>
                  /\ benchmarkLayer' = benchmarkLayer
                  /\ scoreLayer' = scoreLayer
                  /\ averageLayer' = averageLayer
                  /\ backgroundLayer' # <<>>
                  /\ \A k \in 1 .. Len(backgroundLayer') :
                        backgroundLayer'[k].kind \in {"background", "gap"}
            /\ (elapsed > 540) => Len(scoreLayer') >= numCategories
            /\ (lastEvent' = "chartFinal") <=>
                  (elapsed >= 5 * 150 + 1260 /\ elapsed - 540 >= 5 * 150 + 840)
            /\ (lastEvent' = "chartFinal") <=> ~animation'.running]_vars

C27_Witness ==
    /\ lastEvent = "chartTick"
    /\ animation.running
    /\ animation.elapsed <= 540
    /\ backgroundLayer # <<>>
    /\ scoreLayer = <<>>
    /\ benchmarkLayer = <<>>
    /\ averageLayer = <<>>

\* C29: whenever no animation is running, the data layers show the current
\* clamped input values: the score layer is the finished render of the
\* current scores, and every benchmark wedge and average pill present was
\* drawn from the current value of its category.
C29_DisplayedValuesCurrent ==
    (~AnyTickerRunning /\ ~isAnimating) =>
        /\ scoreLayer = StaticScores(GetValues(scoreInputs))
        /\ \A k \in 1 .. Len(benchmarkLayer) :
              benchmarkLayer[k].value = GetValues(benchmarkInputs)[benchmarkLayer[k].category]
        /\ \A k \in 1 .. Len(averageLayer) :
              averageLayer[k].value = GetValues(averageInputs)[averageLayer[k].category]

\* The values a layer's shapes were drawn from.
ValuesDrawn(layer) ==
    {layer[k].value : k \in {j \in 1 .. Len(layer) : layer[j].kind \in {"score", "benchmark", "average"}}}

\* What the spec requires of the caller for one input text: 0 for a
\* non-numeric text, else the number truncated to [0, 4].
Truncated(raw) ==
    IF raw = <<>> THEN 0
    ELSE IF raw[1] > 400 THEN 400
    ELSE IF raw[1] < 0 THEN 0
    ELSE raw[1]

\* C24: every value the draw functions get is in [0, 4]: the values behind
\* the shapes of the data layers, the values a running animation holds and
\* the value labels; and a redraw after an edit draws every category from
\* its input truncated to [0, 4] (4.05 gives 4, a negative number 0, a
\* non-numeric text 0).
C24_InRange ==
    /\ \A layer \in {benchmarkLayer, scoreLayer, averageLayer} :
          \A v \in ValuesDrawn(layer) : v >= 0 /\ v <= 400
    /\ \A ticker \in {animation, dataAnimationRef} : \A c \in Categories :
          /\ ticker.scores[c] >= 0 /\ ticker.scores[c] <= 400
          /\ ticker.benchmarks[c] >= 0 /\ ticker.benchmarks[c] <= 400
          /\ ticker.averages[c] >= 0 /\ ticker.averages[c] <= 400
    /\ \A k \in 1 .. Len(labelLayer) :
          labelLayer[k].kind = "valueLabel" =>
              (labelLayer[k].text >= 0 /\ labelLayer[k].text <= 40)

C24_ValuesClamped ==
    /\ []C24_InRange
    /\ [][lastEvent' = "input" =>
            /\ \A k \in 1 .. Len(scoreLayer') :
                  scoreLayer'[k].kind = "score" =>
                      scoreLayer'[k].value = Truncated(scoreInputs'[scoreLayer'[k].category])
            /\ \A k \in 1 .. Len(benchmarkLayer') :
                  benchmarkLayer'[k].value = Truncated(benchmarkInputs'[benchmarkLayer'[k].category])
            /\ \A k \in 1 .. Len(averageLayer') :
                  averageLayer'[k].value = Truncated(averageInputs'[averageLayer'[k].category])]_vars

C24_Witness ==
    /\ lastEvent = "input"
    /\ scoreInputs[0] = <<405>>
    /\ benchmarkInputs[0] = <<0 - 5>>
    /\ \E k \in 1 .. Len(scoreLayer) :
          /\ scoreLayer[k].kind = "score"
          /\ scoreLayer[k].category = 0
          /\ scoreLayer[k].value = 400
    /\ 0 \notin {benchmarkLayer[k].category : k \in 1 .. Len(benchmarkLayer)}

\* C28: with valueDistancePercent = 100 the value labels sit in the gap
\* between the 3rd and the 4th ring: their radius is at least the outer
\* radius of tier 2 (layer 54) and at most the inner radius of tier 3
\* (layer 57).  Radii in tenths of layerThickness.
C28_LabelsInGap ==
    \A k \in 1 .. Len(canvas) :
        canvas[k].kind = "valueLabel" =>
            /\ canvas[k].radius >= 10 * RingEnd(2)
            /\ canvas[k].radius <= 10 * RingStart(3)

\* What is on the canvas apart from the label overlay, and how many times
\* the overlay has been composited onto it.
CanvasBase(c) == SelectSeq(c, LAMBDA op : op.kind # "overlay")
OverlayCount(c) == Len(SelectSeq(c, LAMBDA op : op.kind = "overlay"))

\* The canvas holds one complete render (passes 1 to 4) of the current
\* inputs, under some setting of the benchmark and average flags.
CompleteRender(c) ==
    \E fBenchmark \in BOOLEAN, fAverage \in BOOLEAN :
        CanvasBase(c) = drawChartSync(GetValues(scoreInputs), GetValues(benchmarkInputs),
                                      GetValues(averageInputs), fBenchmark, fAverage,
                                      showValues)

ExportPending == \E k \in 1 .. Len(pending) : pending[k].target = "export"

\* C22: a failed load of the label overlay is not fatal.  The drawChart it
\* belongs to ends normally after reporting the error: nothing already
\* painted is lost and no overlay is added; on the on-screen canvas a
\* complete chart stays; an exportScenario goes on, downloads its file and
\* either restores the two flags it saved or hands them to the next
\* scenario of the export.
C22_OverlayFailureNonFatal ==
    [][svgOutcome' = "console.error" =>
        \E k \in 1 .. Len(pending) :
            LET call == pending[k]
            IN  /\ canvas' = canvas
                /\ IF call.target = "screen"
                   THEN /\ pending' = RemoveAt(pending, k)
                        /\ CompleteRender(canvas')
                        /\ downloads' = downloads
                        /\ showBenchmark' = showBenchmark /\ showAverage' = showAverage
                   ELSE /\ Len(downloads') = Len(downloads) + 1
                        /\ downloads'[Len(downloads')].scenario = call.scenario
                        /\ IF call.scenario = Len(ExportScenarios)
                           THEN /\ pending' = RemoveAt(pending, k)
                                /\ showBenchmark' = call.originalBenchmarkVisibility
                                /\ showAverage' = call.originalAverageVisibility
                           ELSE /\ Len(pending') = Len(pending)
                                /\ pending'[Len(pending')].scenario = call.scenario + 1
                                /\ pending'[Len(pending')].originalBenchmarkVisibility
                                      = call.originalBenchmarkVisibility
                                /\ pending'[Len(pending')].originalAverageVisibility
                                      = call.originalAverageVisibility]_vars

C22_Witness ==
    /\ svgOutcome = "console.error"
    /\ lastEvent = "exportDone"
    /\ pending = <<>>
    /\ Len(downloads) = 3
    /\ OverlayCount(canvas) = 0
    /\ showBenchmark /\ showAverage

\* C25: once no drawChart is suspended any more, the on-screen canvas holds
\* exactly one complete render of the latest inputs, and the label overlay
\* has been composited onto it at most once (exactly once when the load
\* that settled last succeeded), however the renders overlapped.
C25_RenderSupersedes ==
    (pending = <<>>) =>
        /\ CompleteRender(canvas)
        /\ OverlayCount(canvas) <= 1
        /\ (lastEvent = "overlay" /\ svgOutcome = "drawImage") => OverlayCount(canvas) = 1

\* C30: the flag overrides of an export are isolated from the user's
\* activity.  A render of the on-screen canvas started by an edit or a
\* toggle uses the benchmark and average flags as the user's toggle clicks
\* set them, never the export variant's; and whenever no export is in
\* progress the two flags are the ones the user's clicks set, so a toggle
\* made during an export survives its restore.
C30_ExportIsolated ==
    /\ [](~ExportPending => <<showBenchmark, showAverage>> = userFlags)
    /\ [][lastEvent' \in {"input", "toggle"} =>
            CanvasBase(canvas') =
                drawChartSync(GetValues(scoreInputs'), GetValues(benchmarkInputs'),
                              GetValues(averageInputs'), userFlags'[1], userFlags'[2],
                              showValues')]_vars

\* C23: a render called with a metric array whose length is not the
\* category count fails loudly: its promise rejects.
C23_LengthMismatchRejected ==
    (/\ dResult.called
     /\ \E values \in {dArgs.scores, dArgs.benchmarks, dArgs.averages} :
           DOMAIN values # Categories)
        => dResult.rejected

\* C7: an export is a round trip on the visibility flags: when exportAsPNG
\* has finished its third variant, showBenchmark and showAverage are what they
\* were at the click, so the next render is drawn with the pre-export flags.
C7_ExportRestoresFlags ==
    lastEvent = "exportDone" =>
        /\ exportLog = << <<showBenchmark, showAverage>> >>
        /\ Len(downloads) >= Len(ExportScenarios)
        /\ drawChartSync(GetValues(scoreInputs), GetValues(benchmarkInputs),
                         GetValues(averageInputs), showBenchmark, showAverage,
                         showValues)
           = drawChartSync(GetValues(scoreInputs), GetValues(benchmarkInputs),
                           GetValues(averageInputs), exportLog[1][1],
                           exportLog[1][2], showValues)

C7_Witness ==
    /\ lastEvent = "exportDone"
    /\ [i \in 1 .. Len(downloads) |-> downloads[i].scenario] = <<1, 2, 3>>
    /\ exportLog = << <<TRUE, TRUE>> >>
    /\ showBenchmark /\ showAverage

====
